---------------------------- MODULE Spec2Model ----------------------------
(***************************************************************************)
(* Model of ts_attcpip: the AT device simulator (at_simulator.py), the     *)
(* command ticket (command_issued.py) and the controller (csc.py).         *)
(*                                                                         *)
(* Message ids are modelled as token sequences (<<"cmd_", "enable">>), so  *)
(* that prefix tests and str.replace are computed, not assumed.  A message *)
(* is a function whose DOMAIN is the set of keys the JSON object holds.    *)
(***************************************************************************)
EXTENDS Integers, Sequences, FiniteSets, TLC

VARIABLES
    \* ---- device (AtSimulator) ----
    simulator_state,      \* AtSimulator.simulator_state
    last_sequence_id,     \* AtSimulator.last_sequence_id
    dev_out,              \* messages written by the device, not yet read by the client
    dev_loop,             \* "running" | "stopped": the server's read loop
    dev_count,            \* number of messages handed to the dispatch callback
    last_data,            \* the message most recently handed to the callback
    last_written,         \* what the callback wrote for last_data
    \* ---- wire and clock ----
    c2d,                  \* commands written by the controller, not yet read by the device
    now,                  \* utils.current_tai(), in seconds
    \* ---- controller (AtTcpipCsc) ----
    tickets,              \* every CommandIssued ever created, by sequence id
    commands_issued,      \* keys of AtTcpipCsc.commands_issued (the live tickets)
    next_sequence_id,     \* next value of _command_sequence_id_generator
    fail_reason_event,    \* asyncio.Event
    at_state_event,       \* asyncio.Event
    fault_event,          \* asyncio.Event
    background_tasks,     \* the wait_fail_reason_event tasks
    cleanup_task,         \* the _cleanup_commands task
    connected,            \* cmd_evt_client.connected
    event_task,           \* "none" | "running" | "cancelled" | "failed": cmd_evt_loop
    telemetry_task,       \* "none" | "running" | "cancelled" | "failed": telemetry_loop
    at_state,
    at_connect_state,
    summary_state,
    state_transition_ongoing,
    expect_at_start_state_event,
    orch,                 \* position of the state-transition coroutine
    task_errors,          \* exceptions raised inside tasks, as a set of records
    simulation_mode,      \* 1: the controller talks to the simulator
    env_count,            \* messages an arbitrary device has sent so far
    connects,             \* number of times start_clients has connected
    \* ---- telemetry connection ----
    unrecognized_telemetry_topics,
    tel_sent,             \* telemetry messages the device has written
    tel_written,          \* data handed to call_set_write by telemetry_loop
    tel_log               \* what telemetry_loop has logged

devvars == <<simulator_state, last_sequence_id, dev_out, dev_loop, dev_count,
             last_data, last_written>>
cscvars == <<tickets, commands_issued, next_sequence_id, fail_reason_event,
             at_state_event, fault_event, background_tasks, cleanup_task,
             connected, event_task, telemetry_task, at_state, at_connect_state, summary_state,
             state_transition_ongoing, expect_at_start_state_event, orch,
             task_errors, simulation_mode>>
telvars == <<unrecognized_telemetry_topics, tel_sent, tel_written, tel_log>>
vars == <<devvars, c2d, now, cscvars, env_count, connects, telvars>>

----------------------------------------------------------------------------
(* Bounds of the model *)

\* messages the test client sends to the device
MaxMsgs == 3
\* largest sequence id the test client puts in a message
MaxSeqId == 3
\* commands of a state cycle sent with consecutive sequence ids
MaxCycle == 5
\* commands the controller issues (tickets created)
MaxCmds == 2
\* the clock stops here
MaxTime == 121
\* the clock stops here where only the fail-reason window is watched
MaxWindowTime == 1
\* messages an arbitrary device sends to the controller
MaxEnvMsgs == 3
\* connections the controller opens
MaxConnects == 1
\* seconds the clock runs with the simulator connected
MaxSysTime == 16
\* CommandIssued objects exercised on their own, and the clock's end there
MaxTickets == 1
MaxTicketTime == 3

----------------------------------------------------------------------------
(* enums.py *)

ACK         == <<"ack">>
FAIL        == <<"fail">>
NOACK       == <<"noack">>
SUCCESS     == <<"success">>
FAIL_REASON == <<"failReason">>
Ack == {ACK, FAIL, NOACK, SUCCESS, FAIL_REASON}

DISABLE == <<"cmd_", "disable">>
ENABLE  == <<"cmd_", "enable">>
STANDBY == <<"cmd_", "standby">>
START   == <<"cmd_", "start">>
CommonCommand == {DISABLE, ENABLE, STANDBY, START}

SUMMARY_STATE == <<"evt_", "summaryState">>
ERROR_CODE    == <<"evt_", "errorCode">>

\* sal_enums.State, by name
State == {"OFFLINE", "STANDBY", "DISABLED", "ENABLED", "FAULT"}

----------------------------------------------------------------------------
(* Device: at_simulator.py *)

\* str.replace(old, new) on a token sequence
Replace(s, old, new) == [i \in DOMAIN s |-> IF s[i] = old THEN new ELSE s[i]]

\* schemas.registry after load_schemas: one schema per command file
registry == {<<"command_", "disable">>, <<"command_", "enable">>,
             <<"command_", "standby">>, <<"command_", "start">>}

\* jsonschema.validate(data, json_schema): the outcome is carried by the payload
SchemaValid(data) == "schema_ok" \in DOMAIN data /\ data.schema_ok

\* AtSimulator.dispatch_dict: command -> handler name
dispatch_dict == [c \in CommonCommand |->
                    CASE c = DISABLE -> "disable"
                      [] c = ENABLE  -> "enable"
                      [] c = STANDBY -> "standby"
                      [] c = START   -> "disable"]

\* _write_command_response: the response message
CommandResponse(response, sequence_id) ==
    [id |-> response, sequence_id |-> sequence_id]

\* _write_evt for evt_summaryState
StateEvent(state) == [id |-> SUMMARY_STATE, summaryState |-> state]

\* verify_data accepting every sequence id above the last one
VerifyData_NoGapCheck(data, last) ==
    IF "id" \notin DOMAIN data \/ "sequence_id" \notin DOMAIN data
    THEN <<FALSE, last>>
    ELSE IF Replace(data.id, "cmd_", "command_") \notin registry
    THEN <<FALSE, last>>
    ELSE IF data.sequence_id <= last
    THEN <<FALSE, last>>
    ELSE IF ~SchemaValid(data)
    THEN <<FALSE, data.sequence_id>>
    ELSE <<TRUE, data.sequence_id>>

\* verify_data recording the sequence id of a command it does not know
VerifyData_UnknownAdvances(data, last) ==
    IF "id" \notin DOMAIN data \/ "sequence_id" \notin DOMAIN data
    THEN <<FALSE, last>>
    ELSE IF Replace(data.id, "cmd_", "command_") \notin registry
    THEN <<FALSE, data.sequence_id>>
    ELSE IF data.sequence_id - last # 1
    THEN <<FALSE, last>>
    ELSE IF ~SchemaValid(data)
    THEN <<FALSE, data.sequence_id>>
    ELSE <<TRUE, data.sequence_id>>

\* verify_data: <<data_ok, new last_sequence_id>>
VerifyData(data, last) ==
    IF "id" \notin DOMAIN data \/ "sequence_id" \notin DOMAIN data
    THEN <<FALSE, last>>
    ELSE IF Replace(data.id, "cmd_", "command_") \notin registry
    THEN <<FALSE, last>>
    ELSE IF data.sequence_id - last # 1
    THEN <<FALSE, last>>
    \* last_sequence_id is assigned before the schema is checked
    ELSE IF ~SchemaValid(data)
    THEN <<FALSE, data.sequence_id>>
    ELSE <<TRUE, data.sequence_id>>

\* disable / enable / standby: the state the handler switches to
HandlerState(func) ==
    CASE func = "disable" -> "DISABLED"
      [] func = "enable"  -> "ENABLED"
      [] func = "standby" -> "STANDBY"

\* a handler that writes no terminal response
RunHandler_NoResponse(func, state, sequence_id) ==
    <<HandlerState(func), <<StateEvent(HandlerState(func))>>>>

\* a handler that writes the event before the response
RunHandler_EventFirst(func, state, sequence_id) ==
    <<HandlerState(func),
      <<StateEvent(HandlerState(func)), CommandResponse(SUCCESS, sequence_id)>>>>

\* a handler whose event carries the state the device had before
RunHandler_StaleEvent(func, state, sequence_id) ==
    <<HandlerState(func),
      <<CommandResponse(SUCCESS, sequence_id), StateEvent(state)>>>>

\* disable / enable / standby: <<new state, messages written>>
RunHandler(func, state, sequence_id) ==
    <<HandlerState(func),
      <<CommandResponse(SUCCESS, sequence_id), StateEvent(HandlerState(func))>>>>

\* cmd_evt_dispatch_callback(data), called by AtServerSimulator.read_and_dispatch
cmd_evt_dispatch_callback(data) ==
    LET v == VerifyData(data, last_sequence_id) IN
    /\ dev_count' = dev_count + 1
    /\ last_data' = data
    /\ last_sequence_id' = v[2]
    /\ IF ~v[1]
       THEN IF "sequence_id" \in DOMAIN data
            THEN /\ last_written' = <<CommandResponse(NOACK, data.sequence_id)>>
                 /\ dev_out' = dev_out \o last_written'
                 /\ UNCHANGED <<simulator_state, dev_loop>>
            ELSE \* data[SEQUENCE_ID] raises KeyError in the callback; what the
                 \* server's read loop does with it is the tcpip library's choice
                 /\ last_written' = <<>>
                 /\ dev_loop' \in {"running", "stopped"}
                 /\ UNCHANGED <<simulator_state, dev_out>>
       ELSE LET h == RunHandler(dispatch_dict[data.id], simulator_state,
                                data.sequence_id) IN
            /\ simulator_state' = h[1]
            /\ last_written' = <<CommandResponse(ACK, data.sequence_id)>> \o h[2]
            /\ dev_out' = dev_out \o last_written'
            /\ UNCHANGED dev_loop


----------------------------------------------------------------------------
(* Ticket: command_issued.py *)

\* None, for a timestamp that is not set
None == -1

\* asyncio.Future: pending, or done with a result or an exception
PendingFuture == [state |-> "pending"]
FutureDone(f) == f.state # "pending"

\* CommandIssued.__init__
CommandIssued(name, t) ==
    [name |-> name, timestamp |-> t, ack_timestamp |-> None,
     done_timestamp |-> None, done |-> PendingFuture, raised |-> FALSE]

\* Future.set_result / Future.set_exception: InvalidStateError when already done
FutureSet(tk, outcome) ==
    IF FutureDone(tk.done)
    THEN [tk EXCEPT !.raised = TRUE]
    ELSE [tk EXCEPT !.done = outcome]

NotAcknowledged(name) ==
    [state |-> "exception", msg |-> <<"Command ", name, " was not acknowledged.">>]
FailedWith(name, reason) ==
    [state |-> "exception", msg |-> <<"Command ", name, " failed with reason=", reason>>]
Succeeded == [state |-> "result", value |-> "None"]

\* set_ack taken as a terminal outcome
set_ack_Resolving(tk, t) == [tk EXCEPT !.ack_timestamp = t, !.done = Succeeded]

set_ack(tk, t) == [tk EXCEPT !.ack_timestamp = t]

set_noack(tk, t) ==
    LET a == [tk EXCEPT !.ack_timestamp = t] IN
    IF ~FutureDone(a.done) THEN FutureSet(a, NotAcknowledged(a.name)) ELSE a

set_success(tk, t) ==
    LET a == [tk EXCEPT !.done_timestamp = t] IN
    IF ~FutureDone(a.done) THEN FutureSet(a, Succeeded) ELSE a

set_fail_Unguarded(tk, t, reason) ==
    FutureSet([tk EXCEPT !.done_timestamp = t], FailedWith(tk.name, reason))

set_fail(tk, t, reason) ==
    LET a == [tk EXCEPT !.done_timestamp = t] IN
    IF ~FutureDone(a.done) THEN FutureSet(a, FailedWith(a.name, reason)) ELSE a

----------------------------------------------------------------------------
(* Controller: csc.py *)

FAIL_REASON_TIMEOUT == 1
AT_STATE_EVENT_WAIT_TIMEOUT == 5
CMD_DONE_TIMEOUT == 60

\* str.startswith on a token sequence
StartsWith(s, prefix) == Len(s) > 0 /\ s[1] = prefix

\* the reason string built from a failReason message
FailReasonText(data) ==
    IF data.errorDetails # ""
    THEN <<data.reason, ": ", data.errorDetails, ".">>
    ELSE <<data.reason, ".">>

Min(S) == CHOOSE x \in S : \A y \in S : x <= y

\* a wait_fail_reason_event task, created when FAIL is handled
FailReasonWaiter(sequence_id, t) ==
    [sequence_id |-> sequence_id, deadline |-> t + FAIL_REASON_TIMEOUT,
     woken |-> FALSE]

\* asyncio.Event.set(): every task waiting on the event is woken
WakeAll(tasks) == {[w EXCEPT !.woken = TRUE] : w \in tasks}

\* stop_clients: awaiting a waiter it has just cancelled raises CancelledError
\* out of stop_clients, before any client or task is stopped
StopClientsRaises == background_tasks # {}

stop_clients(in_loop) ==
    IF StopClientsRaises
    THEN /\ \E w \in background_tasks : background_tasks' = background_tasks \ {w}
         \* raised inside cmd_evt_loop, the CancelledError ends that task
         /\ event_task' = IF in_loop THEN "cancelled" ELSE event_task
         /\ UNCHANGED <<cleanup_task, connected, telemetry_task, dev_loop>>
    ELSE /\ UNCHANGED background_tasks
         /\ telemetry_task' = IF telemetry_task = "running" THEN "cancelled"
                              ELSE telemetry_task
         /\ event_task' = IF event_task = "running" THEN "cancelled" ELSE event_task
         /\ connected' = FALSE
         /\ cleanup_task' = IF cleanup_task.state = "sleeping"
                            THEN [cleanup_task EXCEPT !.state = "cancelled"]
                            ELSE cleanup_task
         /\ dev_loop' = IF simulation_mode = 1 THEN "stopped" ELSE dev_loop

NoStop ==
    UNCHANGED <<background_tasks, cleanup_task, connected, event_task,
                telemetry_task, dev_loop>>

\* fault: stop_clients, then salobj's fault sets the summary state
fault(in_loop) ==
    /\ stop_clients(in_loop)
    /\ summary_state' = IF StopClientsRaises THEN summary_state ELSE "FAULT"

\* write_command: the message written and the ticket registered
CommandData(command, sequence_id) ==
    [id |-> command, sequence_id |-> sequence_id, schema_ok |-> TRUE]

\* write_command taking its sequence id without advancing the generator
write_command_SameId(command) ==
    /\ UNCHANGED next_sequence_id
    /\ tickets' = Append(tickets, CommandIssued(command, now))
    /\ commands_issued' = commands_issued \cup {next_sequence_id}
    /\ c2d' = IF connected
              THEN Append(c2d, CommandData(command, next_sequence_id))
              ELSE c2d

\* write_command writing the command without registering its ticket
write_command_Unregistered(command) ==
    /\ next_sequence_id' = next_sequence_id + 1
    /\ tickets' = Append(tickets, CommandIssued(command, now))
    /\ UNCHANGED commands_issued
    /\ c2d' = IF connected
              THEN Append(c2d, CommandData(command, next_sequence_id))
              ELSE c2d

write_command(command) ==
    /\ next_sequence_id' = next_sequence_id + 1
    /\ tickets' = Append(tickets, CommandIssued(command, now))
    /\ commands_issued' = commands_issued \cup {next_sequence_id}
    /\ c2d' = IF connected
              THEN Append(c2d, CommandData(command, next_sequence_id))
              ELSE c2d

\* case Ack.FAIL resolving the ticket at once, without a waiter
HandleFail_ResolvesAtOnce(s) ==
    /\ tickets' = [tickets EXCEPT ![s] = set_fail(@, now, "No reason provided.")]
    /\ commands_issued' = commands_issued \ {s}
    /\ UNCHANGED <<fail_reason_event, task_errors>>
    /\ NoStop

\* _handle_command_response, case Ack.FAIL
HandleFail(s) ==
    /\ fail_reason_event' = FALSE
    /\ background_tasks' = background_tasks \cup {FailReasonWaiter(s, now)}
    /\ UNCHANGED <<tickets, commands_issued, task_errors,
                   cleanup_task, connected, event_task, telemetry_task,
                   dev_loop>>

\* the test on the live set taken as a test on every ticket ever issued
InCommandsIssued_EverIssued(s) == s \in DOMAIN tickets

\* `sequence_id in self.commands_issued`
InCommandsIssued(s) == s \in commands_issued

\* _handle_command_response
_handle_command_response(data) ==
    LET s == data.sequence_id
        response == data.id
    IN
    IF InCommandsIssued(s)
    THEN CASE response = ACK ->
                /\ tickets' = [tickets EXCEPT ![s] = set_ack(@, now)]
                /\ UNCHANGED <<commands_issued, fail_reason_event, task_errors>>
                /\ NoStop
           [] response = NOACK ->
                /\ tickets' = [tickets EXCEPT ![s] = set_noack(@, now)]
                /\ commands_issued' = commands_issued \ {s}
                /\ UNCHANGED <<fail_reason_event, task_errors>>
                /\ NoStop
           [] response = SUCCESS ->
                /\ tickets' = [tickets EXCEPT ![s] = set_success(@, now)]
                /\ commands_issued' = commands_issued \ {s}
                /\ UNCHANGED <<fail_reason_event, task_errors>>
                /\ NoStop
           [] response = FAIL -> HandleFail(s)
           [] response = FAIL_REASON ->
                /\ fail_reason_event' = TRUE
                /\ background_tasks' = WakeAll(background_tasks)
                /\ IF "reason" \in DOMAIN data /\ "errorDetails" \in DOMAIN data
                   THEN /\ tickets' = [tickets EXCEPT
                                         ![s] = set_fail(@, now, FailReasonText(data))]
                        /\ commands_issued' = commands_issued \ {s}
                        /\ UNCHANGED <<task_errors, event_task>>
                   ELSE \* data[REASON] raises KeyError: the read loop ends
                        /\ task_errors' = task_errors \cup
                              {[task |-> "cmd_evt_loop", error |-> "KeyError"]}
                        /\ event_task' = "failed"
                        /\ UNCHANGED <<tickets, commands_issued>>
                /\ UNCHANGED <<cleanup_task, connected, telemetry_task, dev_loop>>
           [] OTHER ->
                \* RuntimeError("Received unexpected response"): the read loop ends
                /\ task_errors' = task_errors \cup
                      {[task |-> "cmd_evt_loop", error |-> "RuntimeError"]}
                /\ event_task' = "failed"
                /\ UNCHANGED <<tickets, commands_issued, fail_reason_event,
                               background_tasks, cleanup_task, connected,
                               telemetry_task, dev_loop>>
    ELSE /\ UNCHANGED <<tickets, commands_issued, fail_reason_event, task_errors>>
         /\ NoStop

\* _handle_event for evt_summaryState
\* (other events go to call_set_write, which only publishes)
_handle_event(data) ==
    IF data.id = SUMMARY_STATE
    THEN LET st == data.summaryState
             connect_state == IF expect_at_start_state_event THEN st
                              ELSE at_connect_state
             unexpected == /\ ~state_transition_ongoing
                           /\ ~expect_at_start_state_event
                           /\ summary_state = "ENABLED"
                           /\ st \in {"DISABLED", "STANDBY"}
             at_fault == st = "FAULT" /\ connect_state # "FAULT"
         IN
         /\ at_state_event' = TRUE
         /\ at_state' = st
         /\ at_connect_state' = connect_state
         /\ IF unexpected
            THEN \* fault raises out of the handler when stop_clients raises
                 /\ fault(TRUE)
                 /\ expect_at_start_state_event' = expect_at_start_state_event
                 /\ UNCHANGED fault_event
            ELSE /\ expect_at_start_state_event' = FALSE
                 /\ IF at_fault
                    THEN fault_event' = TRUE /\ fault(TRUE)
                    ELSE UNCHANGED <<fault_event, summary_state>> /\ NoStop
    ELSE /\ UNCHANGED <<at_state_event, at_state, at_connect_state, fault_event,
                        expect_at_start_state_event, summary_state>>
         /\ NoStop

\* one iteration of cmd_evt_loop, with the message read
cmd_evt_loop(data) ==
    /\ event_task = "running"
    /\ connected
    /\ IF StartsWith(data.id, "evt_")
       THEN /\ _handle_event(data)
            /\ UNCHANGED <<tickets, commands_issued, fail_reason_event, task_errors>>
       ELSE IF "sequence_id" \in DOMAIN data
       THEN /\ _handle_command_response(data)
            /\ UNCHANGED <<at_state_event, at_state, at_connect_state, fault_event,
                           expect_at_start_state_event, summary_state>>
       ELSE /\ fault(TRUE)
            /\ UNCHANGED <<at_state_event, at_state, at_connect_state, fault_event,
                           expect_at_start_state_event, tickets, commands_issued,
                           fail_reason_event, task_errors>>
    /\ UNCHANGED <<next_sequence_id, state_transition_ongoing, orch, simulation_mode, now>>

\* the telemetry topics the controller has as attributes (getattr succeeds)
TelemetryTopics == {<<"tel_", "known">>}

\* entries telemetry_loop writes to the log
UnableToParse == [level |-> "warning", msg |-> "Unable to parse"]
UnknownTopic(data_id) ==
    [level |-> "warning", msg |-> "Unknown telemetry topic", id |-> data_id]
NonTelemetry == [level |-> "error", msg |-> "Received non-telemetry"]

\* one iteration of telemetry_loop, with the message read
telemetry_loop(data) ==
    LET data_id == IF "id" \in DOMAIN data THEN data.id ELSE <<>>
        parsed == IF "id" \in DOMAIN data THEN tel_log
                  ELSE Append(tel_log, UnableToParse)
    IN
    IF StartsWith(data_id, "tel_")
    THEN /\ IF data_id \notin unrecognized_telemetry_topics
            THEN IF data_id \notin TelemetryTopics
                 THEN /\ tel_log' = Append(parsed, UnknownTopic(data_id))
                      /\ unrecognized_telemetry_topics' =
                            unrecognized_telemetry_topics \cup {data_id}
                      /\ UNCHANGED tel_written
                 ELSE \* call_set_write
                      /\ tel_written' = Append(tel_written, data)
                      /\ tel_log' = parsed
                      /\ UNCHANGED unrecognized_telemetry_topics
            ELSE /\ tel_log' = parsed
                 /\ UNCHANGED <<unrecognized_telemetry_topics, tel_written>>
         /\ UNCHANGED <<telemetry_task, task_errors>>
    ELSE \* `await self.log.error(...)` logs, then awaiting None raises
         \* TypeError: the task ends
         /\ tel_log' = Append(parsed, NonTelemetry)
         /\ telemetry_task' = "failed"
         /\ task_errors' = task_errors \cup
               {[task |-> "telemetry_loop", error |-> "TypeError"]}
         /\ UNCHANGED <<unrecognized_telemetry_topics, tel_written>>

\* wait_fail_reason_event: the window expires
WaiterTimeout(w) ==
    /\ w \in background_tasks
    /\ ~w.woken
    /\ now >= w.deadline
    /\ background_tasks' = background_tasks \ {w}
    /\ IF w.sequence_id \in commands_issued
       THEN /\ tickets' = [tickets EXCEPT ![w.sequence_id] =
                              set_fail(@, now, "No reason provided.")]
            /\ commands_issued' = commands_issued \ {w.sequence_id}
            /\ UNCHANGED task_errors
       ELSE \* self.commands_issued[sequence_id] raises KeyError in the task
            /\ task_errors' = task_errors \cup
                  {[task |-> "wait_fail_reason_event", error |-> "KeyError"]}
            /\ UNCHANGED <<tickets, commands_issued>>
    /\ UNCHANGED <<next_sequence_id, fail_reason_event, at_state_event, fault_event,
                   cleanup_task, connected, event_task, telemetry_task, at_state, at_connect_state,
                   summary_state, state_transition_ongoing,
                   expect_at_start_state_event, orch, simulation_mode,
                   devvars, c2d, now, env_count, connects, telvars>>

\* wait_fail_reason_event: the event was set, the task returns
WaiterReturn(w) ==
    /\ w \in background_tasks
    /\ w.woken
    /\ background_tasks' = background_tasks \ {w}
    /\ UNCHANGED <<tickets, commands_issued, task_errors,
                   next_sequence_id, fail_reason_event, at_state_event, fault_event,
                   cleanup_task, connected, event_task, telemetry_task, at_state, at_connect_state,
                   summary_state, state_transition_ongoing,
                   expect_at_start_state_event, orch, simulation_mode,
                   devvars, c2d, now, env_count, connects, telvars>>

\* _cleanup_commands: the sequence ids one sweep removes
StaleAt_OrEqual(t) == {s \in commands_issued : t - tickets[s].timestamp >= CMD_DONE_TIMEOUT}

StaleAt(t) == {s \in commands_issued : t - tickets[s].timestamp > CMD_DONE_TIMEOUT}

\* _cleanup_commands: one sweep, then sleep
CleanupSweep ==
    /\ cleanup_task.state = "sleeping"
    /\ now >= cleanup_task.wake
    /\ tickets' = [s \in DOMAIN tickets |->
                     IF s \in StaleAt(now)
                     THEN set_fail(tickets[s], now, "No fail reason received.")
                     ELSE tickets[s]]
    /\ commands_issued' = commands_issued \ StaleAt(now)
    /\ cleanup_task' = [cleanup_task EXCEPT !.wake = now + CMD_DONE_TIMEOUT]
    /\ UNCHANGED <<next_sequence_id, fail_reason_event, at_state_event, fault_event,
                   background_tasks, connected, event_task, telemetry_task, at_state,
                   at_connect_state, summary_state, state_transition_ongoing,
                   expect_at_start_state_event, orch, task_errors,
                   simulation_mode, devvars, c2d, now, env_count, connects, telvars>>

----------------------------------------------------------------------------
(* Controller: the state transitions driven by salobj's do_start, do_enable *)

Idle == [op |-> "none", pc |-> "idle", deadline |-> 0, sequence_id |-> 0]

\* the device's connect callback reports its state (abstract in AtSimulator)
cmd_evt_connect_callback == <<StateEvent(simulator_state)>>

\* start_clients leaving expect_at_start_state_event as it is
start_clients_NotArmed ==
    /\ UNCHANGED expect_at_start_state_event
    /\ connected' = TRUE
    /\ event_task' = "running"
    /\ telemetry_task' = "running"
    /\ cleanup_task' = [state |-> "sleeping", wake |-> now]
    /\ c2d' = <<>>
    /\ dev_out' = IF simulation_mode = 1 THEN cmd_evt_connect_callback ELSE <<>>
    /\ UNCHANGED <<background_tasks, dev_loop>>

\* start_clients: stop the cleanup task and the cmd/evt task and client, then
\* connect anew and start both tasks (the waiters are left alone)
start_clients ==
    /\ expect_at_start_state_event' = TRUE
    /\ connected' = TRUE
    /\ event_task' = "running"
    /\ telemetry_task' = "running"
    /\ cleanup_task' = [state |-> "sleeping", wake |-> now]
    /\ c2d' = <<>>
    /\ dev_out' = IF simulation_mode = 1 THEN cmd_evt_connect_callback ELSE <<>>
    /\ UNCHANGED <<background_tasks, dev_loop>>

\* do_start: salobj sets the summary state, then end_start up to its wait
do_start ==
    /\ orch = Idle
    /\ summary_state = "STANDBY"
    /\ connects' = connects + 1
    /\ UNCHANGED telvars
    /\ simulation_mode = 1 => dev_loop = "running"
    /\ summary_state' = "DISABLED"
    /\ state_transition_ongoing' = TRUE
    /\ start_clients
    /\ orch' = [op |-> "start", pc |-> "start_wait",
                deadline |-> now + AT_STATE_EVENT_WAIT_TIMEOUT, sequence_id |-> 0]
    /\ UNCHANGED <<tickets, commands_issued, next_sequence_id, fail_reason_event,
                   at_state_event, fault_event, at_state, at_connect_state,
                   task_errors, simulation_mode, now,
                   simulator_state, last_sequence_id, dev_count, last_data,
                   last_written, env_count>>

\* do_start, as often as the model lets the controller connect
DoStart ==
    /\ connects < MaxConnects
    /\ do_start

\* end_start: the AT state event was set
StartWaitDone ==
    /\ orch.pc = "start_wait"
    /\ at_state_event
    /\ state_transition_ongoing' = FALSE
    /\ orch' = Idle
    /\ UNCHANGED <<tickets, commands_issued, next_sequence_id, fail_reason_event,
                   at_state_event, fault_event, background_tasks, cleanup_task,
                   connected, event_task, telemetry_task, at_state, at_connect_state, summary_state,
                   expect_at_start_state_event, task_errors,
                   simulation_mode, devvars, c2d, now, env_count, connects, telvars>>

\* end_start: no AT state event within AT_STATE_EVENT_WAIT_TIMEOUT: fault, then
\* RuntimeError; salobj decides the summary state an end_start error leaves,
\* and fault sets FAULT only when stop_clients returns
StartWaitTimeout ==
    /\ orch.pc = "start_wait"
    /\ ~at_state_event
    /\ now >= orch.deadline
    /\ stop_clients(FALSE)
    /\ IF StopClientsRaises
       THEN UNCHANGED state_transition_ongoing
       ELSE state_transition_ongoing' = FALSE
    /\ summary_state' \in IF StopClientsRaises
                          THEN {"DISABLED", "STANDBY"}
                          ELSE {"FAULT", "STANDBY"}
    /\ orch' = Idle
    /\ UNCHANGED <<tickets, commands_issued, next_sequence_id, fail_reason_event,
                   at_state_event, fault_event, at_state, at_connect_state,
                   expect_at_start_state_event, task_errors,
                   simulation_mode, simulator_state, last_sequence_id, dev_out,
                   dev_count, last_data, last_written, c2d, now, env_count, connects, telvars>>

\* begin_enable's match on at_state, with STANDBY skipped for a device in FAULT
EnableCommand_StartFromFault(state) ==
    CASE state = "FAULT"    -> START
      [] state = "STANDBY"  -> START
      [] state = "DISABLED" -> ENABLE
      [] OTHER              -> <<>>

\* begin_enable: the command its match on at_state selects; <<>> for return
EnableCommand(state) ==
    CASE state = "FAULT"    -> STANDBY
      [] state = "STANDBY"  -> START
      [] state = "DISABLED" -> ENABLE
      [] OTHER              -> <<>>

\* do_enable: salobj calls begin_enable in the DISABLED state
DoEnable ==
    /\ orch = Idle
    /\ summary_state = "DISABLED"
    /\ state_transition_ongoing' = TRUE
    /\ orch' = [op |-> "enable", pc |-> "loop", deadline |-> 0, sequence_id |-> 0]
    /\ UNCHANGED <<tickets, commands_issued, next_sequence_id, fail_reason_event,
                   at_state_event, fault_event, background_tasks, cleanup_task,
                   connected, event_task, telemetry_task, at_state, at_connect_state, summary_state,
                   expect_at_start_state_event, task_errors, simulation_mode,
                   devvars, c2d, now, env_count, connects, telvars>>

\* begin_enable: one pass of the while loop up to its first await, with
\* perform_common_part_of_state_transition up to the write of wait_cmd_done
EnableLoop ==
    /\ orch.op = "enable"
    /\ orch.pc = "loop"
    /\ IF summary_state \in {"ENABLED", "FAULT"} \/ EnableCommand(at_state) = <<>>
       THEN /\ orch' = [orch EXCEPT !.pc = "begin_done"]
            /\ UNCHANGED <<tickets, commands_issued, next_sequence_id, c2d,
                           at_state_event, summary_state>>
            /\ NoStop
       ELSE IF connected
       THEN /\ at_state_event' = FALSE
            /\ write_command(EnableCommand(at_state))
            /\ orch' = [orch EXCEPT !.pc = "wait_done",
                                    !.deadline = now + CMD_DONE_TIMEOUT,
                                    !.sequence_id = next_sequence_id]
            /\ UNCHANGED summary_state
            /\ NoStop
       ELSE /\ fault(FALSE)
            \* a CancelledError out of stop_clients ends begin_enable
            /\ orch' = IF StopClientsRaises
                       THEN Idle
                       ELSE [orch EXCEPT !.pc = "sleep",
                                         !.deadline = now + AT_STATE_EVENT_WAIT_TIMEOUT]
            /\ UNCHANGED <<tickets, commands_issued, next_sequence_id, c2d,
                           at_state_event>>
    /\ UNCHANGED <<fail_reason_event, fault_event, at_state, at_connect_state,
                   state_transition_ongoing, expect_at_start_state_event,
                   task_errors, simulation_mode, now, simulator_state,
                   last_sequence_id, dev_out, dev_count, last_data, last_written,
                   env_count, connects, telvars>>

\* wait_fututre_done_or_fault on the ticket: done, fault or timeout
EnableWaitDone ==
    /\ orch.pc = "wait_done"
    /\ \/ FutureDone(tickets[orch.sequence_id].done)
       \/ fault_event
       \/ now >= orch.deadline
    /\ orch' = [orch EXCEPT !.pc = "wait_event", !.deadline = now + CMD_DONE_TIMEOUT]
    /\ UNCHANGED <<tickets, commands_issued, next_sequence_id, fail_reason_event,
                   at_state_event, fault_event, background_tasks, cleanup_task,
                   connected, event_task, telemetry_task, at_state, at_connect_state, summary_state,
                   state_transition_ongoing, expect_at_start_state_event,
                   task_errors, simulation_mode, devvars, c2d, now, env_count,
                   connects, telvars>>

\* wait_fututre_done_or_fault on at_state_event: set, fault or timeout
EnableWaitEvent ==
    /\ orch.pc = "wait_event"
    /\ \/ at_state_event
       \/ fault_event
       \/ now >= orch.deadline
    /\ orch' = [orch EXCEPT !.pc = "sleep",
                            !.deadline = now + AT_STATE_EVENT_WAIT_TIMEOUT]
    /\ UNCHANGED <<tickets, commands_issued, next_sequence_id, fail_reason_event,
                   at_state_event, fault_event, background_tasks, cleanup_task,
                   connected, event_task, telemetry_task, at_state, at_connect_state, summary_state,
                   state_transition_ongoing, expect_at_start_state_event,
                   task_errors, simulation_mode, devvars, c2d, now, env_count,
                   connects, telvars>>

\* begin_enable: asyncio.sleep(AT_STATE_EVENT_WAIT_TIMEOUT) is over
EnableSleep ==
    /\ orch.pc = "sleep"
    /\ now >= orch.deadline
    /\ orch' = [orch EXCEPT !.pc = "loop"]
    /\ UNCHANGED <<tickets, commands_issued, next_sequence_id, fail_reason_event,
                   at_state_event, fault_event, background_tasks, cleanup_task,
                   connected, event_task, telemetry_task, at_state, at_connect_state, summary_state,
                   state_transition_ongoing, expect_at_start_state_event,
                   task_errors, simulation_mode, devvars, c2d, now, env_count,
                   connects, telvars>>

\* begin_enable has returned: salobj sets the summary state, then end_enable;
\* salobj decides the summary state an end_enable error leaves
EnableEnd ==
    /\ orch.pc = "begin_done"
    /\ state_transition_ongoing' = FALSE
    /\ IF fault_event
       THEN /\ fault_event' = FALSE
            /\ stop_clients(FALSE)
            /\ summary_state' \in IF StopClientsRaises
                                  THEN {"DISABLED", "ENABLED"}
                                  ELSE {"FAULT"}
       ELSE /\ summary_state' = "ENABLED"
            /\ UNCHANGED fault_event
            /\ NoStop
    /\ orch' = Idle
    /\ UNCHANGED <<tickets, commands_issued, next_sequence_id, fail_reason_event,
                   at_state_event, at_state, at_connect_state,
                   expect_at_start_state_event, task_errors, simulation_mode,
                   simulator_state, last_sequence_id, dev_out, dev_count, last_data,
                   last_written, c2d, now, env_count, connects, telvars>>

\* do_disable: salobj calls begin_disable in the ENABLED state; begin_disable
\* with perform_common_part_of_state_transition up to the write of wait_cmd_done
DoDisable ==
    /\ orch = Idle
    /\ summary_state = "ENABLED"
    /\ state_transition_ongoing' = TRUE
    /\ IF connected /\ at_state \in {"STANDBY", "ENABLED"}
       THEN /\ at_state_event' = FALSE
            /\ write_command(DISABLE)
            /\ orch' = [op |-> "disable", pc |-> "step_wait_done",
                        deadline |-> now + CMD_DONE_TIMEOUT,
                        sequence_id |-> next_sequence_id]
            /\ UNCHANGED summary_state
            /\ NoStop
       ELSE /\ fault(FALSE)
            \* a CancelledError out of stop_clients ends begin_disable
            /\ orch' = IF StopClientsRaises
                       THEN Idle
                       ELSE [op |-> "disable", pc |-> "step_done",
                             deadline |-> 0, sequence_id |-> 0]
            /\ UNCHANGED <<tickets, commands_issued, next_sequence_id, c2d,
                           at_state_event>>
    /\ UNCHANGED <<fail_reason_event, fault_event, at_state, at_connect_state,
                   expect_at_start_state_event, task_errors, simulation_mode, now,
                   simulator_state, last_sequence_id, dev_out, dev_count, last_data,
                   last_written, env_count, connects, telvars>>

\* do_standby: salobj calls begin_standby in the DISABLED or FAULT state
DoStandby ==
    /\ orch = Idle
    /\ summary_state \in {"DISABLED", "FAULT"}
    /\ state_transition_ongoing' = TRUE
    /\ IF connected /\ summary_state # "FAULT" /\ at_state = "DISABLED"
       THEN /\ at_state_event' = FALSE
            /\ write_command(STANDBY)
            /\ orch' = [op |-> "standby", pc |-> "step_wait_done",
                        deadline |-> now + CMD_DONE_TIMEOUT,
                        sequence_id |-> next_sequence_id]
            /\ UNCHANGED summary_state
            /\ NoStop
       ELSE \* fault; after the fault of perform_common_part_of_state_transition
            \* stop_clients runs once more and finds nothing left to stop
            /\ fault(FALSE)
            /\ orch' = IF StopClientsRaises
                       THEN Idle
                       ELSE [op |-> "standby", pc |-> "step_done",
                             deadline |-> 0, sequence_id |-> 0]
            /\ UNCHANGED <<tickets, commands_issued, next_sequence_id, c2d,
                           at_state_event>>
    /\ UNCHANGED <<fail_reason_event, fault_event, at_state, at_connect_state,
                   expect_at_start_state_event, task_errors, simulation_mode, now,
                   simulator_state, last_sequence_id, dev_out, dev_count, last_data,
                   last_written, env_count, connects, telvars>>

\* begin_disable / begin_standby: wait_fututre_done_or_fault on the ticket
StepWaitDone ==
    /\ orch.pc = "step_wait_done"
    /\ \/ FutureDone(tickets[orch.sequence_id].done)
       \/ fault_event
       \/ now >= orch.deadline
    /\ orch' = [orch EXCEPT !.pc = "step_wait_event",
                            !.deadline = now + CMD_DONE_TIMEOUT]
    /\ UNCHANGED <<tickets, commands_issued, next_sequence_id, fail_reason_event,
                   at_state_event, fault_event, background_tasks, cleanup_task,
                   connected, event_task, telemetry_task, at_state, at_connect_state, summary_state,
                   state_transition_ongoing, expect_at_start_state_event,
                   task_errors, simulation_mode, devvars, c2d, now, env_count,
                   connects, telvars>>

\* begin_disable / begin_standby: wait_fututre_done_or_fault on at_state_event;
\* begin_standby then disconnects with stop_clients
StepWaitEvent ==
    /\ orch.pc = "step_wait_event"
    /\ \/ at_state_event
       \/ fault_event
       \/ now >= orch.deadline
    /\ IF orch.op = "standby"
       THEN /\ stop_clients(FALSE)
            /\ orch' = IF StopClientsRaises
                       THEN Idle
                       ELSE [orch EXCEPT !.pc = "step_done"]
       ELSE /\ NoStop
            /\ orch' = [orch EXCEPT !.pc = "step_done"]
    /\ UNCHANGED <<tickets, commands_issued, next_sequence_id, fail_reason_event,
                   at_state_event, fault_event, at_state, at_connect_state,
                   summary_state, state_transition_ongoing,
                   expect_at_start_state_event, task_errors, simulation_mode,
                   simulator_state, last_sequence_id, dev_out, dev_count, last_data,
                   last_written, c2d, now, env_count, connects, telvars>>

\* begin_disable / begin_standby has returned: salobj sets the summary state,
\* then end_disable / end_standby; salobj decides the summary state an
\* end_disable error leaves
StepEnd ==
    /\ orch.pc = "step_done"
    /\ state_transition_ongoing' = FALSE
    /\ IF orch.op = "disable" /\ fault_event
       THEN /\ fault_event' = FALSE
            /\ stop_clients(FALSE)
            /\ summary_state' \in IF StopClientsRaises
                                  THEN {"ENABLED", "DISABLED"}
                                  ELSE {"FAULT"}
       ELSE /\ summary_state' = IF orch.op = "disable" THEN "DISABLED" ELSE "STANDBY"
            /\ UNCHANGED fault_event
            /\ NoStop
    /\ orch' = Idle
    /\ UNCHANGED <<tickets, commands_issued, next_sequence_id, fail_reason_event,
                   at_state_event, at_state, at_connect_state,
                   expect_at_start_state_event, task_errors, simulation_mode,
                   simulator_state, last_sequence_id, dev_out, dev_count, last_data,
                   last_written, c2d, now, env_count, connects, telvars>>

----------------------------------------------------------------------------
(* The clock *)

\* the instants the clock visits: around every multiple of CMD_DONE_TIMEOUT,
\* and every deadline of a running timer
TimePoints(limit) ==
    {t \in 0 .. limit :
        t % CMD_DONE_TIMEOUT \in {0, 1, CMD_DONE_TIMEOUT - 1}}

TimerDeadlines ==
    {w.deadline : w \in {x \in background_tasks : ~x.woken}}
    \cup (IF cleanup_task.state = "sleeping" THEN {cleanup_task.wake} ELSE {})
    \cup (IF orch.pc \in {"start_wait", "wait_done", "wait_event", "sleep",
                          "step_wait_done", "step_wait_event"}
          THEN {orch.deadline} ELSE {})

\* a task of the controller that is ready to run
Runnable ==
    \/ \E w \in background_tasks : w.woken
    \/ orch.pc \in {"loop", "begin_done", "step_done"}
    \/ orch.pc = "start_wait" /\ at_state_event
    \/ orch.pc \in {"wait_done", "step_wait_done"}
         /\ (FutureDone(tickets[orch.sequence_id].done) \/ fault_event)
    \/ orch.pc \in {"wait_event", "step_wait_event"}
         /\ (at_state_event \/ fault_event)

\* time passes, once every ready task has run and every due timer has fired
TickTo(limit) ==
    LET next == {t \in TimePoints(limit) \cup TimerDeadlines : t > now /\ t <= limit} IN
    /\ ~Runnable
    /\ \A d \in TimerDeadlines : d > now
    /\ next # {}
    /\ now' = Min(next)
    /\ UNCHANGED <<devvars, c2d, cscvars, env_count, connects, telvars>>

----------------------------------------------------------------------------
(* Initial state *)

NoData == [none |-> TRUE]

\* AtSimulator.__init__, with the state the device is in
InitDevice(state) ==
    /\ simulator_state = state
    /\ last_sequence_id = 0
    /\ dev_out = <<>>
    /\ dev_loop = "running"
    /\ dev_count = 0
    /\ last_data = NoData
    /\ last_written = <<>>

\* AtTcpipCsc.__init__(simulation_mode=mode)
InitCsc(mode) ==
    /\ tickets = <<>>
    /\ commands_issued = {}
    /\ next_sequence_id = 1
    /\ fail_reason_event = FALSE
    /\ at_state_event = FALSE
    /\ fault_event = FALSE
    /\ background_tasks = {}
    /\ cleanup_task = [state |-> "done", wake |-> 0]
    /\ connected = FALSE
    /\ event_task = "none"
    /\ telemetry_task = "none"
    /\ unrecognized_telemetry_topics = {}
    /\ tel_sent = <<>>
    /\ tel_written = <<>>
    /\ tel_log = <<>>
    /\ at_state = "OFFLINE"
    /\ at_connect_state = "OFFLINE"
    /\ summary_state = "STANDBY"
    /\ state_transition_ongoing = FALSE
    /\ expect_at_start_state_event = FALSE
    /\ orch = Idle
    /\ task_errors = {}
    /\ simulation_mode = mode

InitWire ==
    /\ c2d = <<>>
    /\ now = 0
    /\ env_count = 0
    /\ connects = 0

\* the state after AtSimulator.__init__ and AtTcpipCsc.__init__
Init == InitDevice("STANDBY") /\ InitWire /\ InitCsc(0)

----------------------------------------------------------------------------
(* The device driven by a test client: tests/test_simulator.py *)

CommandIds == CommonCommand \cup {<<"cmd_", "unknown">>}
SequenceIds == 0 .. MaxSeqId

\* the messages a client can send: with or without id and sequence_id
DeviceInputs ==
    [id : CommandIds, sequence_id : SequenceIds, schema_ok : BOOLEAN]
    \cup [id : CommandIds, schema_ok : {TRUE}]
    \cup [sequence_id : SequenceIds, schema_ok : {TRUE}]

\* write_json by the client, then read_and_dispatch on the server
ClientSend(data) ==
    /\ dev_count < MaxMsgs
    /\ dev_loop = "running"
    /\ dev_out = <<>>
    /\ cmd_evt_dispatch_callback(data)
    /\ UNCHANGED <<c2d, now, cscvars, env_count, connects, telvars>>

\* read_json by the client
ClientRead ==
    /\ dev_out # <<>>
    /\ dev_out' = Tail(dev_out)
    /\ UNCHANGED <<simulator_state, last_sequence_id, dev_loop, dev_count,
                   last_data, last_written, c2d, now, cscvars, env_count, connects, telvars>>

NextDevice == (\E data \in DeviceInputs : ClientSend(data)) \/ ClientRead

SpecDevice == Init /\ [][NextDevice]_vars

\* execute_command of the tests: the next sequence id, a well-formed payload
CycleSend(command) ==
    /\ dev_count < MaxCycle
    /\ dev_loop = "running"
    /\ cmd_evt_dispatch_callback(
           [id |-> command, sequence_id |-> dev_count + 1, schema_ok |-> TRUE])
    /\ UNCHANGED <<c2d, now, cscvars, env_count, connects, telvars>>

NextCycle == \E command \in CommonCommand : CycleSend(command)

SpecCycle == Init /\ [][NextCycle]_vars


----------------------------------------------------------------------------
(* Properties of the device *)

\* the callback has just handled a message
Handled == dev_count' = dev_count + 1

IsResponse(m) == m.id \in Ack
Responses(written) == SelectSeq(written, IsResponse)
Events(written) == SelectSeq(written, LAMBDA m : m.id = SUMMARY_STATE)
Accepted(written) == written # <<>> /\ written[1].id = ACK

\* C1: a command whose sequence_id is not last_sequence_id + 1 is answered
\* with NOACK only and leaves last_sequence_id and simulator_state unchanged;
\* every accepted command increases last_sequence_id by exactly 1.
C1_SequenceGate ==
    [][Handled =>
        /\ ("sequence_id" \in DOMAIN last_data'
              /\ last_data'.sequence_id # last_sequence_id + 1)
           => /\ last_written' = <<CommandResponse(NOACK, last_data'.sequence_id)>>
              /\ last_sequence_id' = last_sequence_id
              /\ simulator_state' = simulator_state
        /\ Accepted(last_written') => last_sequence_id' = last_sequence_id + 1
      ]_vars

\* a repeat and a gap have both been rejected after an accepted command
C1_Witness ==
    /\ last_sequence_id = 1
    /\ dev_count = 3
    /\ "sequence_id" \in DOMAIN last_data
    /\ last_data.sequence_id = 3
    /\ "id" \in DOMAIN last_data /\ last_data.id \in CommonCommand
    /\ last_data.schema_ok
    /\ last_written = <<CommandResponse(NOACK, 3)>>

\* the message just handled carries both id and sequence_id
WellFormed(data) == "id" \in DOMAIN data /\ "sequence_id" \in DOMAIN data

\* C15: a command with a known name and sequence_id = last_sequence_id + 1
\* whose payload fails schema validation is answered with NOACK only and
\* leaves last_sequence_id and simulator_state unchanged.
C15_SchemaFailureKeepsCounter ==
    [][(/\ Handled
        /\ WellFormed(last_data')
        /\ last_data'.id \in CommonCommand
        /\ last_data'.sequence_id = last_sequence_id + 1
        /\ ~SchemaValid(last_data'))
          => /\ last_written' = <<CommandResponse(NOACK, last_data'.sequence_id)>>
             /\ last_sequence_id' = last_sequence_id
             /\ simulator_state' = simulator_state]_vars

\* C16: a message without id or without sequence_id is answered with one
\* NOACK, leaves last_sequence_id and simulator_state unchanged and leaves
\* the device reading.
C16_MissingFieldNoAck ==
    [][(Handled /\ ~WellFormed(last_data'))
          => /\ Len(last_written') = 1
             /\ last_written'[1].id = NOACK
             /\ last_sequence_id' = last_sequence_id
             /\ simulator_state' = simulator_state
             /\ dev_loop' = "running"]_vars

\* C17: the registry holds exactly the keys of the four commands disable,
\* enable, standby and start; a command whose key is not in the registry is
\* answered with NOACK only and leaves last_sequence_id and simulator_state
\* unchanged; every accepted command has a handler in dispatch_dict.
C17_RegistryGate ==
    [][/\ registry = {Replace(c, "cmd_", "command_") : c \in CommonCommand}
       /\ Cardinality(registry) = 4
       /\ (Handled /\ WellFormed(last_data')) =>
             /\ Replace(last_data'.id, "cmd_", "command_") \notin registry
                => /\ last_written' =
                         <<CommandResponse(NOACK, last_data'.sequence_id)>>
                   /\ last_sequence_id' = last_sequence_id
                   /\ simulator_state' = simulator_state
             /\ Accepted(last_written')
                => /\ last_data'.id \in DOMAIN dispatch_dict
                   /\ dispatch_dict[last_data'.id] \in {"disable", "enable", "standby"}
      ]_vars

\* after an accepted START, a command the registry does not know, carrying the
\* expected sequence id, has been answered with NOACK
C17_Witness ==
    /\ dev_count = 2
    /\ last_sequence_id = 1
    /\ simulator_state = "DISABLED"
    /\ WellFormed(last_data)
    /\ last_data.id = <<"cmd_", "unknown">>
    /\ last_data.sequence_id = 2
    /\ last_written = <<CommandResponse(NOACK, 2)>>

\* C19: an accepted command is answered ACK, SUCCESS and then exactly one
\* summaryState event carrying the state the device is then in, written
\* before anything a later command causes; a command that is not answered
\* with SUCCESS (NOACK, FAIL, or nothing) causes no event.
C19_OneEventAfterSuccess ==
    [][Handled =>
        LET written == last_written'
            succeeded == \E i \in DOMAIN written : written[i].id = SUCCESS
        IN
        /\ Accepted(written)
           => /\ written = <<CommandResponse(ACK, last_data'.sequence_id),
                             CommandResponse(SUCCESS, last_data'.sequence_id),
                             StateEvent(simulator_state')>>
              /\ dev_out' = dev_out \o written
        /\ succeeded => Accepted(written)
        /\ ~succeeded => /\ Events(written) = <<>>
                         /\ simulator_state' = simulator_state
      ]_vars

\* ENABLE accepted with sequence id 2 and answered with its one ENABLED event,
\* one of the two messages before it having been rejected
C19_Witness ==
    /\ dev_count = 3
    /\ last_sequence_id = 2
    /\ simulator_state = "ENABLED"
    /\ last_written = <<CommandResponse(ACK, 2), CommandResponse(SUCCESS, 2),
                        StateEvent("ENABLED")>>

\* the state a command asks for
RequestedState(command) == HandlerState(dispatch_dict[command])

\* C5: a state command that requests the state the device is already in is
\* answered ACK then FAIL, leaves simulator_state unchanged and emits no
\* event; START from STANDBY yields DISABLED with SUCCESS.
C5_RepeatFails ==
    [][(Handled /\ Accepted(last_written')) =>
        /\ RequestedState(last_data'.id) = simulator_state
           => /\ last_written' = <<CommandResponse(ACK, last_data'.sequence_id),
                                   CommandResponse(FAIL, last_data'.sequence_id)>>
              /\ simulator_state' = simulator_state
        /\ (last_data'.id = START /\ simulator_state = "STANDBY")
           => /\ simulator_state' = "DISABLED"
              /\ Responses(last_written') =
                    <<CommandResponse(ACK, last_data'.sequence_id),
                      CommandResponse(SUCCESS, last_data'.sequence_id)>>
      ]_vars

\* the cycle of test_stimulator_state_commands
CycleCommand(k) ==
    CASE k = 1 -> START [] k = 2 -> ENABLE [] k = 3 -> DISABLE [] k = 4 -> STANDBY
CycleState(k) ==
    CASE k = 0 -> "STANDBY" [] k = 1 -> "DISABLED" [] k = 2 -> "ENABLED"
      [] k = 3 -> "DISABLED" [] k = 4 -> "STANDBY"
RECURSIVE CycleOut(_)
CycleOut(k) ==
    IF k = 0 THEN <<>>
    ELSE CycleOut(k - 1) \o <<CommandResponse(ACK, k), CommandResponse(SUCCESS, k),
                              StateEvent(CycleState(k))>>

\* C6: from STANDBY, the commands START, ENABLE, DISABLE, STANDBY with
\* consecutive sequence ids are each answered ACK and SUCCESS, the device is
\* back in STANDBY, and exactly the four events DISABLED, ENABLED, DISABLED,
\* STANDBY were emitted in that order.  Stated one command at a time: after
\* the first k-1 commands of the cycle, the k-th extends the output so.
C6_FullCycle ==
    [][\A k \in 1 .. 4 :
        (/\ Handled
         /\ dev_count = k - 1
         /\ dev_out = CycleOut(k - 1)
         /\ simulator_state = CycleState(k - 1)
         /\ last_data'.id = CycleCommand(k)
         /\ last_data'.sequence_id = k)
        => /\ dev_out' = CycleOut(k)
           /\ simulator_state' = CycleState(k)
           /\ last_sequence_id' = k
      ]_vars

\* the whole cycle has been run
C6_Witness ==
    /\ dev_count = 4
    /\ last_data # NoData /\ last_data.id = STANDBY
    /\ dev_out = CycleOut(4)
    /\ Events(dev_out) = <<StateEvent("DISABLED"), StateEvent("ENABLED"),
                           StateEvent("DISABLED"), StateEvent("STANDBY")>>
    /\ simulator_state = "STANDBY"

\* C20: with go_to_fault_state set on the device, an accepted START from
\* STANDBY is answered ACK and SUCCESS, puts the device in FAULT and emits the
\* FAULT state event followed by an errorCode event with errorCode,
\* errorReport and traceback.  AtSimulator reads no such setting, so every
\* run of the device is a run with it set.
C20_StartGoesToFault ==
    [][(/\ Handled
        /\ simulator_state = "STANDBY"
        /\ WellFormed(last_data')
        /\ last_data'.id = START
        /\ Accepted(last_written'))
          => /\ simulator_state' = "FAULT"
             /\ Len(last_written') = 4
             /\ SubSeq(last_written', 1, 3) =
                   <<CommandResponse(ACK, last_data'.sequence_id),
                     CommandResponse(SUCCESS, last_data'.sequence_id),
                     StateEvent("FAULT")>>
             /\ last_written'[4].id = ERROR_CODE
             /\ {"errorCode", "errorReport", "traceback"}
                   \subseteq DOMAIN last_written'[4]]_vars

\* C8: for every command message (one that carries a sequence id) the
\* responses the callback writes are exactly one NOACK, or exactly one ACK
\* followed by exactly one terminal response, all with that sequence id.
C8_ResponseShape ==
    (dev_count > 0 /\ "sequence_id" \in DOMAIN last_data) =>
        LET s == last_data.sequence_id IN
        Responses(last_written) \in
            {<<CommandResponse(NOACK, s)>>,
             <<CommandResponse(ACK, s), CommandResponse(SUCCESS, s)>>,
             <<CommandResponse(ACK, s), CommandResponse(FAIL, s)>>}

\* an accepted command after a rejected one
C8_Witness ==
    /\ dev_count = 2
    /\ last_sequence_id = 1
    /\ "sequence_id" \in DOMAIN last_data
    /\ Responses(last_written) =
          <<CommandResponse(ACK, 1), CommandResponse(SUCCESS, 1)>>


----------------------------------------------------------------------------
(* The controller facing an arbitrary device *)

CallerCommands == {ENABLE}

\* wait_cmd_done / write_command called by a command handler of the CSC
CallerWrite(command) ==
    /\ next_sequence_id <= MaxCmds
    /\ write_command(command)
    /\ UNCHANGED <<fail_reason_event, at_state_event, fault_event, background_tasks,
                   cleanup_task, connected, event_task, telemetry_task, at_state, at_connect_state,
                   summary_state, state_transition_ongoing,
                   expect_at_start_state_event, orch, task_errors,
                   simulation_mode, devvars, now, env_count, connects, telvars>>

\* what a device can send on the cmd/evt connection
EnvMessages ==
    [id : {ACK, NOACK, SUCCESS, FAIL}, sequence_id : 1 .. MaxCmds]
    \cup [id : {FAIL_REASON}, sequence_id : 1 .. MaxCmds,
          reason : {"reason"}, errorDetails : {"", "details"}]
    \cup {[id |-> <<"bogus">>, sequence_id |-> 1]}
    \cup {[id |-> <<"None">>]}
    \cup {StateEvent(st) : st \in {"STANDBY", "FAULT"}}

\* the read loop reads a message the device sent
EnvDeliver(data) ==
    /\ env_count < MaxEnvMsgs
    /\ env_count' = env_count + 1
    /\ cmd_evt_loop(data)
    /\ UNCHANGED <<simulator_state, last_sequence_id, dev_out, dev_count,
                   last_data, last_written, c2d, connects, telvars>>

NextCsc ==
    \/ DoStart
    \/ StartWaitDone
    \/ \E command \in CallerCommands : CallerWrite(command)
    \/ \E data \in EnvMessages : EnvDeliver(data)
    \/ \E w \in background_tasks : WaiterTimeout(w)
    \/ \E w \in background_tasks : WaiterReturn(w)
    \/ CleanupSweep
    \/ TickTo(MaxWindowTime)

SpecCsc == Init /\ [][NextCsc]_vars

Live(s) == s \in commands_issued
Pending(s) == ~FutureDone(tickets[s].done)
HasSequenceId(data) == "sequence_id" \in DOMAIN data
NoReason == "No reason provided."

\* C3: every step that closes the cmd/evt connection resolves every live
\* ticket and leaves the live set empty.
C3_DisconnectResolvesAll ==
    [][(connected /\ ~connected')
          => /\ commands_issued' = {}
             /\ \A s \in commands_issued : FutureDone(tickets'[s].done)]_vars

\* C9: the wait that FAIL starts for a live ticket never returns leaving the
\* ticket as it was: unless a failReason for its sequence id has resolved and
\* removed it before, the ticket is resolved with "No reason provided." and
\* removed from the live set.
C9_NoReasonAtWindowExpiry ==
    [][\A w \in background_tasks :
          ((WaiterReturn(w) \/ WaiterTimeout(w)) /\ Live(w.sequence_id))
             => /\ ~Live(w.sequence_id)'
                /\ tickets'[w.sequence_id].done =
                      FailedWith(tickets[w.sequence_id].name, NoReason)]_vars

\* C11: an acknowledgement message for a sequence id that is not in the live
\* set changes no ticket, raises nothing in the read loop or in a background
\* task and leaves the read loop running; a resolved ticket is never in the
\* live set, so this covers a message for an already resolved ticket.
C11_UnknownIdIgnored ==
    [][/\ \A s \in commands_issued' : Pending(s)'
       /\ \A data \in EnvMessages :
             (/\ HasSequenceId(data)
              /\ data.id \in Ack
              /\ ~Live(data.sequence_id)
              /\ EnvDeliver(data))
                => /\ UNCHANGED <<tickets, commands_issued, task_errors,
                                  background_tasks, fail_reason_event,
                                  summary_state>>
                   /\ event_task' = "running"
                   /\ connected']_vars

\* the one ticket was resolved by the only message handled for it, and the
\* other messages the device sent all carried a sequence id outside the live
\* set: no state event, no fault, no window, and the read loop still runs
C11_Witness ==
    /\ env_count = MaxEnvMsgs
    /\ at_state = "OFFLINE"
    /\ summary_state # "FAULT"
    /\ connected
    /\ event_task = "running"
    /\ task_errors = {}
    /\ background_tasks = {}
    /\ Len(tickets) = 1
    /\ tickets[1].ack_timestamp = None
    /\ tickets[1].done = Succeeded
    /\ tickets[1].done_timestamp = 0
    /\ now = 1

\* a step in which the device's message data is handled for the live ticket s
Receives(data, s) ==
    /\ HasSequenceId(data)
    /\ data.sequence_id = s
    /\ Live(s)
    /\ EnvDeliver(data)

\* SUCCESS and NOACK resolve and remove the live ticket in the handling step;
\* FAIL leaves it pending and live
ResolvedWhenHandled ==
    \A data \in EnvMessages : \A s \in commands_issued :
        Receives(data, s) =>
            CASE data.id = SUCCESS ->
                    tickets'[s].done = Succeeded /\ ~Live(s)'
              [] data.id = NOACK ->
                    tickets'[s].done = NotAcknowledged(tickets[s].name) /\ ~Live(s)'
              [] data.id = FAIL ->
                    tickets'[s] = tickets[s] /\ Live(s)'
              [] OTHER -> TRUE

\* C12: handling NOACK, SUCCESS or failReason for a live ticket, and the expiry
\* of a fail-reason window of a live ticket, resolve the ticket and remove it
\* from commands_issued; handling ACK only sets the acknowledge timestamp and
\* leaves the ticket live and pending.
C12_TerminalRemovesAckKeeps ==
    [][/\ \A data \in EnvMessages : \A s \in commands_issued :
             Receives(data, s) =>
                CASE data.id \in {NOACK, SUCCESS, FAIL_REASON} ->
                        ~Live(s)' /\ ~Pending(s)'
                  [] data.id = ACK ->
                        /\ tickets'[s] = [tickets[s] EXCEPT !.ack_timestamp = now]
                        /\ Live(s)'
                        /\ Pending(s)'
                  [] OTHER -> TRUE
       /\ \A w \in background_tasks :
             (Live(w.sequence_id) /\ WaiterTimeout(w))
                => ~Live(w.sequence_id)' /\ ~Pending(w.sequence_id)']_vars

\* one ticket acknowledged and still live and pending, the other resolved by
\* NOACK and out of the live set
C12_Witness ==
    \E s, n \in DOMAIN tickets :
        /\ tickets[s].ack_timestamp # None
        /\ Live(s)
        /\ Pending(s)
        /\ tickets[n].done = NotAcknowledged(tickets[n].name)
        /\ ~Live(n)

\* C13: a command response whose code is none of ACK, NOACK, SUCCESS, FAIL,
\* failReason puts the controller in FAULT in the step that handles it.
C13_UnknownCodeFaults ==
    [][\A data \in EnvMessages :
          (/\ HasSequenceId(data)
           /\ data.id \notin Ack
           /\ EnvDeliver(data))
             => summary_state' = "FAULT"]_vars

\* C14: SUCCESS or FAIL for a live ticket that has no acknowledge timestamp
\* puts the controller in FAULT and does not resolve the ticket.
C14_TerminalBeforeAckFaults ==
    [][\A data \in EnvMessages : \A s \in commands_issued :
          (/\ data.id \in {SUCCESS, FAIL}
           /\ tickets[s].ack_timestamp = None
           /\ Receives(data, s))
             => /\ summary_state' = "FAULT"
                /\ Pending(s)']_vars

\* the fail-reason window of the live ticket of waiter w is open
WindowOpen(w) == ~w.woken /\ now < w.deadline /\ Live(w.sequence_id)

\* a step in which a fail-reason window of ticket s expires
WindowExpires(s) ==
    \E v \in background_tasks : v.sequence_id = s /\ WaiterTimeout(v)

\* C10 (as amended): SUCCESS or NOACK for a live ticket resolves it in the
\* handling step and FAIL does not; while its fail-reason window is open the
\* ticket stays pending and live unless the step handles a failReason, a
\* SUCCESS or a NOACK for its sequence id, is the expiry of a window an earlier
\* FAIL opened for it, or is a sweep of the reaper.
C10_FailDefers ==
    [][/\ ResolvedWhenHandled
       /\ \A w \in background_tasks :
             WindowOpen(w)
                => \/ Live(w.sequence_id)' /\ Pending(w.sequence_id)'
                   \/ \E data \in EnvMessages :
                         /\ Receives(data, w.sequence_id)
                         /\ data.id \in {FAIL_REASON, SUCCESS, NOACK}
                   \/ WindowExpires(w.sequence_id)
                   \/ CleanupSweep]_vars

\* one ticket resolved by SUCCESS while another, deferred by FAIL, is pending
\* with its window open
C10_Witness ==
    \E w \in background_tasks : \E s \in DOMAIN tickets :
        /\ WindowOpen(w)
        /\ Pending(w.sequence_id)
        /\ tickets[s].done = Succeeded
        /\ ~Live(s)

\* C10 (as stated): after FAIL the ticket stays pending and live until the
\* failReason for its sequence id arrives or the window expires.
C10_PendingUntilReasonOrExpiry ==
    [][\A w \in background_tasks :
          WindowOpen(w)
             => \/ Live(w.sequence_id)' /\ Pending(w.sequence_id)'
                \/ \E data \in EnvMessages :
                      /\ Receives(data, w.sequence_id)
                      /\ data.id = FAIL_REASON
                \/ WindowExpires(w.sequence_id)]_vars

----------------------------------------------------------------------------
(* The controller facing a device that acknowledges and then falls silent *)

SilentDeviceMessages ==
    [id : {ACK}, sequence_id : 1 .. MaxCmds]
    \cup {StateEvent("STANDBY")}

NextReaper ==
    \/ DoStart
    \/ StartWaitDone
    \/ StartWaitTimeout
    \/ \E command \in CallerCommands : CallerWrite(command)
    \/ \E data \in SilentDeviceMessages : EnvDeliver(data)
    \/ CleanupSweep
    \/ TickTo(MaxTime)

SpecReaper == Init /\ [][NextReaper]_vars

Age(s) == now - tickets[s].timestamp
ReaperCause == "No fail reason received."
ReaperRuns == cleanup_task.state = "sleeping"

\* C4 (as amended): the reaper resolves a ticket, with the cause "No fail
\* reason received.", only in a sweep that finds it older than CMD_DONE_TIMEOUT,
\* and removes it in that sweep; sweeps being CMD_DONE_TIMEOUT apart, between
\* two sweeps no live ticket is older than twice CMD_DONE_TIMEOUT.
C4_ReapedAtFirstStaleSweep ==
    [][/\ \A s \in commands_issued :
             tickets'[s].done = FailedWith(tickets[s].name, ReaperCause)
                 => /\ Age(s) > CMD_DONE_TIMEOUT
                    /\ s \notin commands_issued'
                    /\ cleanup_task'.wake = now + CMD_DONE_TIMEOUT
       /\ (ReaperRuns' /\ cleanup_task'.wake > now')
             => \A s \in commands_issued' :
                   now' - tickets'[s].timestamp <= 2 * CMD_DONE_TIMEOUT]_vars

\* an acknowledged ticket reaped at twice the timeout after it was issued
C4_Witness ==
    \E s \in DOMAIN tickets :
        /\ tickets[s].ack_timestamp # None
        /\ tickets[s].done = FailedWith(tickets[s].name, ReaperCause)
        /\ s \notin commands_issued
        /\ tickets[s].done_timestamp - tickets[s].timestamp = 2 * CMD_DONE_TIMEOUT

\* C4 (as stated): an acknowledged ticket is resolved and removed no later
\* than CMD_DONE_TIMEOUT after the command was issued: between two sweeps of
\* the reaper no acknowledged ticket older than that is live.
C4_ReapedWithinTimeout ==
    \A s \in commands_issued :
        (ReaperRuns /\ cleanup_task.wake > now /\ tickets[s].ack_timestamp # None)
            => Age(s) <= CMD_DONE_TIMEOUT

----------------------------------------------------------------------------
(* The controller in simulation mode, connected to the simulator *)

\* the states the tests start the device in
DeviceStartStates == {"STANDBY", "FAULT", "DISABLED", "ENABLED"}

InitSys ==
    \E state \in DeviceStartStates :
        InitDevice(state) /\ InitWire /\ InitCsc(1)

\* read_and_dispatch taking the message that arrived last
DeviceRead_NewestFirst ==
    /\ dev_loop = "running"
    /\ c2d # <<>>
    /\ cmd_evt_dispatch_callback(c2d[Len(c2d)])
    /\ c2d' = SubSeq(c2d, 1, Len(c2d) - 1)
    /\ UNCHANGED <<now, cscvars, env_count, connects, telvars>>

\* AtServerSimulator.read_and_dispatch: the device reads a command
DeviceRead ==
    /\ dev_loop = "running"
    /\ c2d # <<>>
    /\ cmd_evt_dispatch_callback(Head(c2d))
    /\ c2d' = Tail(c2d)
    /\ UNCHANGED <<now, cscvars, env_count, connects, telvars>>

\* cmd_evt_loop: the controller reads what the device wrote
CscRead ==
    /\ dev_out # <<>>
    /\ cmd_evt_loop(Head(dev_out))
    /\ dev_out' = Tail(dev_out)
    /\ UNCHANGED <<simulator_state, last_sequence_id, dev_count, last_data,
                   last_written, c2d, env_count, connects, telvars>>

\* time passes once both directions of the connection are empty
TickSys ==
    /\ c2d = <<>>
    /\ dev_out = <<>>
    /\ TickTo(MaxSysTime)

NextSys ==
    \/ DoStart
    \/ StartWaitDone
    \/ DoEnable
    \/ EnableLoop
    \/ EnableWaitDone
    \/ EnableWaitEvent
    \/ EnableSleep
    \/ EnableEnd
    \/ DeviceRead
    \/ CscRead
    \/ CleanupSweep
    \/ TickSys

SpecSys == InitSys /\ [][NextSys]_vars

\* the commands written so far, in issue order
Issued == [s \in DOMAIN tickets |-> tickets[s].name]
IsPrefix(a, b) == Len(a) <= Len(b) /\ \A i \in DOMAIN a : a[i] = b[i]
FromFault == <<STANDBY, START, ENABLE>>
\* the device state the k-th command of FromFault is issued in
StateBefore(k) == <<"FAULT", "STANDBY", "DISABLED">>[k]

\* C7: with the device in FAULT at connection time, do_enable issues STANDBY,
\* START, ENABLE in that order and nothing else; each is written with the
\* controller having observed the state the previous step leads to (the
\* state event of the previous command handled, its ticket resolved); no
\* command is written once the device has reported ENABLED; and do_enable
\* ends with all three issued, device and controller ENABLED.
C7_EnableFromFault ==
    [][(at_connect_state = "FAULT" /\ orch.op = "enable")
          => /\ IsPrefix(Issued', FromFault)
             /\ Issued' # Issued
                   => /\ at_state = StateBefore(Len(Issued'))
                      /\ commands_issued = {}
                      /\ Len(Issued) > 0 => at_state_event
             /\ at_state = "ENABLED" => Issued' = Issued
             /\ orch' = Idle
                   => /\ Issued = FromFault
                      /\ at_state = "ENABLED"
                      /\ simulator_state = "ENABLED"
                      /\ summary_state' = "ENABLED"]_vars

\* do_enable has ended for a device that was in FAULT at connection time
C7_Witness ==
    /\ at_connect_state = "FAULT"
    /\ Issued = FromFault
    /\ at_state = "ENABLED"
    /\ summary_state = "ENABLED"
    /\ orch = Idle

----------------------------------------------------------------------------
(* The ticket alone: every order of calls on CommandIssued objects *)

TicketNames == {ENABLE}
FailReasons == {"No reason provided.", <<"reason", ".">>}

TicketNew(name) ==
    /\ Len(tickets) < MaxTickets
    /\ tickets' = Append(tickets, CommandIssued(name, now))
    /\ UNCHANGED <<devvars, c2d, now, commands_issued, next_sequence_id,
                   fail_reason_event, at_state_event, fault_event, background_tasks,
                   cleanup_task, connected, event_task, telemetry_task, at_state, at_connect_state,
                   summary_state, state_transition_ongoing,
                   expect_at_start_state_event, orch, task_errors,
                   simulation_mode, env_count, connects, telvars>>

TicketCall(s, method, reason) ==
    /\ s \in DOMAIN tickets
    /\ tickets' = [tickets EXCEPT ![s] =
                     CASE method = "set_ack" -> set_ack(@, now)
                       [] method = "set_noack" -> set_noack(@, now)
                       [] method = "set_success" -> set_success(@, now)
                       [] method = "set_fail" -> set_fail(@, now, reason)]
    /\ UNCHANGED <<devvars, c2d, now, commands_issued, next_sequence_id,
                   fail_reason_event, at_state_event, fault_event, background_tasks,
                   cleanup_task, connected, event_task, telemetry_task, at_state, at_connect_state,
                   summary_state, state_transition_ongoing,
                   expect_at_start_state_event, orch, task_errors,
                   simulation_mode, env_count, connects, telvars>>

\* utils.current_tai() moves on between calls
TicketTick ==
    /\ now < MaxTicketTime
    /\ now' = now + 1
    /\ UNCHANGED <<devvars, c2d, cscvars, env_count, connects, telvars>>

NextTicket ==
    \/ \E name \in TicketNames : TicketNew(name)
    \/ \E s \in 1 .. MaxTickets, reason \in FailReasons,
          method \in {"set_ack", "set_noack", "set_success", "set_fail"} :
          TicketCall(s, method, reason)
    \/ TicketTick

SpecTicket == Init /\ [][NextTicket]_vars

\* C2: once a ticket's completion signal is resolved, no later call of
\* set_ack, set_noack, set_success or set_fail changes the outcome, and no
\* call raises.
C2_ResolvedOnce ==
    [][\A s \in DOMAIN tickets :
          /\ FutureDone(tickets[s].done) => tickets'[s].done = tickets[s].done
          /\ ~tickets'[s].raised
      ]_vars

\* a ticket resolved with a first failure was later told success and noack
C2_Witness ==
    \E s \in DOMAIN tickets :
        /\ tickets[s].done = FailedWith(tickets[s].name, "No reason provided.")
        /\ tickets[s].ack_timestamp > tickets[s].done_timestamp
        /\ tickets[s].done_timestamp > tickets[s].timestamp

----------------------------------------------------------------------------
(* A caller of write_command, one command at a time, facing the simulator *)

\* the names a caller can pass: the four commands and one the device ignores
RecoverCommands == CommonCommand \cup {<<"cmd_", "unknown">>}

\* write_command by a caller that has awaited the ticket of its last command
RecoverWrite(command) ==
    /\ next_sequence_id <= MaxCmds
    /\ connected
    /\ orch = Idle
    /\ commands_issued = {}
    /\ write_command(command)
    /\ UNCHANGED <<fail_reason_event, at_state_event, fault_event, background_tasks,
                   cleanup_task, connected, event_task, telemetry_task, at_state, at_connect_state,
                   summary_state, state_transition_ongoing,
                   expect_at_start_state_event, orch, task_errors,
                   simulation_mode, devvars, now, env_count, connects, telvars>>

NextRecover ==
    \/ DoStart
    \/ StartWaitDone
    \/ \E command \in RecoverCommands : RecoverWrite(command)
    \/ DeviceRead
    \/ CscRead
    \/ CleanupSweep
    \/ TickSys

SpecRecover == InitSys /\ [][NextRecover]_vars

\* C18: once the ticket of a command has been resolved as not acknowledged,
\* the next well-formed command the controller writes, carrying the next id
\* of its generator, is accepted by the device.
C18_AcceptedAfterRejection ==
    [][\A k \in 2 .. MaxCmds :
          (/\ Handled
           /\ WellFormed(last_data')
           /\ last_data'.sequence_id = k
           /\ last_data'.id \in CommonCommand
           /\ SchemaValid(last_data')
           /\ tickets[k - 1].done = NotAcknowledged(tickets[k - 1].name)
           /\ ~Live(k - 1))
             => Accepted(last_written')]_vars

----------------------------------------------------------------------------
(* The controller in simulation mode driven through do_start, do_enable,
   do_disable and do_standby, with a caller of write_command *)

\* sequence ids a transition may start at
MaxTransitCmds == 4

\* the caller writes a command the device does not know
TransitWrite == RecoverWrite(<<"cmd_", "unknown">>)

\* a transition asked for while sequence ids are left
TransitStart ==
    /\ next_sequence_id <= MaxTransitCmds
    /\ (DoEnable \/ DoDisable \/ DoStandby)

\* time passes once both directions of the connection are empty
TickTransit ==
    /\ c2d = <<>>
    /\ dev_out = <<>>
    /\ TickTo(MaxTime)

NextTransit ==
    \/ DoStart
    \/ StartWaitDone
    \/ TransitStart
    \/ EnableLoop
    \/ EnableWaitDone
    \/ EnableWaitEvent
    \/ EnableSleep
    \/ EnableEnd
    \/ StepWaitDone
    \/ StepWaitEvent
    \/ StepEnd
    \/ TransitWrite
    \/ DeviceRead
    \/ CscRead
    \/ CleanupSweep
    \/ TickTransit

SpecTransit == InitSys /\ [][NextTransit]_vars

\* a step that ends a transition during which fault was not entered
EndsWithoutFault == summary_state # "FAULT" /\ summary_state' # "FAULT"

\* C21: when do_enable, do_disable or do_standby ends without fault, at_state
\* and the device's simulator_state both equal the target state.
C21_ViewMatchesDevice ==
    [][/\ (EnableEnd /\ EndsWithoutFault)
            => at_state' = "ENABLED" /\ simulator_state' = "ENABLED"
       /\ (StepEnd /\ orch.op = "disable" /\ EndsWithoutFault)
            => at_state' = "DISABLED" /\ simulator_state' = "DISABLED"
       /\ (StepEnd /\ orch.op = "standby" /\ EndsWithoutFault)
            => at_state' = "STANDBY" /\ simulator_state' = "STANDBY"]_vars

\* the iteration of begin_enable that has just ended saw neither a state
\* event nor a fault: its wait for the state event timed out
IterationTimedOut ==
    /\ orch.op = "enable"
    /\ orch.sequence_id # 0
    /\ ~at_state_event
    /\ ~fault_event

\* C22: an iteration of begin_enable that cannot proceed escalates to local
\* fault: when its wait ended by timeout the controller is in FAULT before
\* the loop sleeps, and begin_enable returns only with the device observed
\* ENABLED or with the controller in fault.
C22_StuckIterationFaults ==
    /\ (orch.pc = "sleep" /\ IterationTimedOut) => summary_state = "FAULT"
    /\ orch.pc = "begin_done"
          => at_state = "ENABLED" \/ summary_state = "FAULT" \/ fault_event

\* C23: after an iteration of begin_enable whose wait timed out, the loop
\* writes no further command in that transition.
C23_NoRetryAfterTimeout ==
    [][(orch.pc = "loop" /\ IterationTimedOut /\ EnableLoop)
          => Len(tickets') = Len(tickets)]_vars

\* C24: when the ticket of the command a transition waits for is resolved
\* with an exception (not acknowledged, failed, reaped), the controller
\* enters FAULT and does not go on to wait for the state event.
C24_FailedCommandFaults ==
    [][((EnableWaitDone \/ StepWaitDone)
          /\ tickets[orch.sequence_id].done.state = "exception")
          => /\ summary_state' = "FAULT"
             /\ orch'.pc \notin {"wait_event", "step_wait_event"}]_vars

----------------------------------------------------------------------------
(* The controller driving its transitions against an arbitrary device *)

\* connections the controller opens, and the commands after which no further
\* transition is started
MaxSessions == 2
MaxOrchCmds == 2
\* the clock's end there: past the wait of end_start and one sleep of begin_enable
MaxOrchTime == 6

\* what the device sends: any state event, and the failure of command 1 with
\* its reason
OrchMessages ==
    {StateEvent(st) : st \in State}
    \cup [id : {FAIL}, sequence_id : {1}]
    \cup [id : {FAIL_REASON}, sequence_id : {1}, reason : {"reason"},
          errorDetails : {""}]

OrchStart ==
    /\ connects < MaxSessions
    /\ do_start

\* do_enable, do_disable, do_standby as salobj admits them
OrchTransit ==
    /\ next_sequence_id <= MaxOrchCmds
    /\ (DoEnable \/ DoDisable \/ DoStandby)

NextOrch ==
    \/ OrchStart
    \/ StartWaitDone
    \/ StartWaitTimeout
    \/ OrchTransit
    \/ EnableLoop
    \/ EnableWaitDone
    \/ EnableWaitEvent
    \/ EnableSleep
    \/ EnableEnd
    \/ StepWaitDone
    \/ StepWaitEvent
    \/ StepEnd
    \/ \E command \in CallerCommands : CallerWrite(command)
    \/ \E data \in OrchMessages : EnvDeliver(data)
    \/ \E w \in background_tasks : WaiterTimeout(w)
    \/ \E w \in background_tasks : WaiterReturn(w)
    \/ CleanupSweep
    \/ TickTo(MaxOrchTime)

SpecOrch == Init /\ [][NextOrch]_vars

\* C25: a single-step transition begun with at_state not an expected starting
\* state (do_disable expects ENABLED or STANDBY, do_standby expects DISABLED)
\* puts the controller in FAULT and writes no command.
C25_UnexpectedStartFaults ==
    [][/\ (DoDisable /\ at_state \notin {"ENABLED", "STANDBY"})
            => summary_state' = "FAULT" /\ tickets' = tickets /\ c2d' = c2d
       /\ (DoStandby /\ at_state # "DISABLED")
            => summary_state' = "FAULT" /\ tickets' = tickets /\ c2d' = c2d]_vars

\* C26: with the controller ENABLED, no transition in progress and the first
\* event of the connection already seen, a state event reporting any other
\* state puts the controller in FAULT, and at_state records the reported state.
C26_ContradictingEventFaults ==
    [][\A st \in State \ {"ENABLED"} :
          (/\ EnvDeliver(StateEvent(st))
           /\ summary_state = "ENABLED"
           /\ ~state_transition_ongoing
           /\ ~expect_at_start_state_event)
          => summary_state' = "FAULT" /\ at_state' = st]_vars

\* a device fault seen in the course of the transition now running: the
\* transition wrote a command, the first event of this connection reported a
\* state other than FAULT, and a later FAULT event has been handled
FaultedMidTransition ==
    /\ orch.sequence_id # 0
    /\ ~expect_at_start_state_event
    /\ at_connect_state # "FAULT"
    /\ at_state = "FAULT"
    /\ fault_event

\* C28: a transition during which the device reported FAULT ends with the
\* controller in FAULT, and begin_enable writes no further command once the
\* FAULT event has been handled.
C28_DeviceFaultEndsInFault ==
    [][/\ ((EnableEnd \/ StepEnd) /\ FaultedMidTransition)
            => summary_state' = "FAULT" /\ at_state' = "FAULT"
       /\ (EnableLoop /\ FaultedMidTransition)
            => Len(tickets') = Len(tickets)]_vars

C29_StartWaitsForFirstEvent ==
    [][/\ (OrchStart \/ StartWaitDone \/ StartWaitTimeout)
            => tickets' = tickets /\ c2d' \in {c2d, <<>>}
       /\ StartWaitDone => ~expect_at_start_state_event
       /\ StartWaitTimeout => summary_state' = "FAULT"]_vars

\* a step in which write_command registers a ticket
Writes == Len(tickets') > Len(tickets)

\* C30 as stated: the sequence id of every command is greater than the one
\* before, and after each start_clients that connects again the ids start
\* again at the first value of the generator.
C30_IdsRestartPerSession ==
    [][/\ Writes => next_sequence_id' > next_sequence_id
       /\ (OrchStart /\ connects >= 1) => next_sequence_id' = 1]_vars

\* C30, amended: the sequence id of every command is one greater than the id
\* of the command written before it, over all connections: it is the id of no
\* earlier ticket, no other step moves the generator, and start_clients
\* leaves it where it is.
C30_IdsNeverRestart ==
    [][/\ Writes => /\ next_sequence_id = Len(tickets) + 1
                    /\ next_sequence_id \notin commands_issued
                    /\ Len(tickets') = next_sequence_id
                    /\ commands_issued' = commands_issued \cup {next_sequence_id}
                    /\ next_sequence_id' = next_sequence_id + 1
       /\ ~Writes => next_sequence_id' = next_sequence_id
       /\ OrchStart => next_sequence_id' = next_sequence_id /\ ~Writes]_vars

\* the second connection carries command 2 only: command 1 was written
\* before the controller connected again
C30_Witness ==
    /\ connects = 2
    /\ connected
    /\ Len(tickets) = 2
    /\ c2d = <<CommandData(ENABLE, 2)>>

----------------------------------------------------------------------------
(* The device server's read loop, in the system of SpecTransit *)

\* the messages a step of the device appended to what it has written
WrittenBy(before, after) == SubSeq(after, Len(before) + 1, Len(after))

\* a message written for the command with this sequence id: a response that
\* carries the id, or the state event of its handler
WrittenFor(msg, sequence_id) ==
    IF "sequence_id" \in DOMAIN msg
    THEN msg.sequence_id = sequence_id
    ELSE msg.id = SUMMARY_STATE

----------------------------------------------------------------------------
(* The telemetry connection *)

\* telemetry messages the device writes
MaxTelMsgs == 4

\* what the device can write on the telemetry connection: a topic the
\* controller has, two it has not, an event, and a message without id
TelemetryMessages ==
    [id : {<<"tel_", "known">>, <<"tel_", "unknown">>, <<"tel_", "other">>,
           <<"evt_", "summaryState">>},
     value : {1}]
    \cup {[value |-> 1]}

\* the device writes a telemetry message; telemetry_loop reads it if it runs
TelemetrySend(data) ==
    /\ telemetry_task \in {"running", "failed"}
    /\ Len(tel_sent) < MaxTelMsgs
    /\ tel_sent' = Append(tel_sent, data)
    /\ IF telemetry_task = "running"
       THEN telemetry_loop(data)
       ELSE UNCHANGED <<unrecognized_telemetry_topics, tel_written, tel_log,
                        telemetry_task, task_errors>>
    /\ UNCHANGED <<tickets, commands_issued, next_sequence_id, fail_reason_event,
                   at_state_event, fault_event, background_tasks, cleanup_task,
                   connected, event_task, at_state, at_connect_state,
                   summary_state, state_transition_ongoing,
                   expect_at_start_state_event, orch, simulation_mode,
                   devvars, c2d, now, env_count, connects>>

NextTelemetry ==
    \/ DoStart
    \/ StartWaitDone
    \/ StartWaitTimeout
    \/ EnvDeliver(StateEvent("STANDBY"))
    \/ \E data \in TelemetryMessages : TelemetrySend(data)
    \/ CleanupSweep
    \/ TickTo(MaxOrchTime)

SpecTelemetry == Init /\ [][NextTelemetry]_vars

IsTelemetry(data) == "id" \in DOMAIN data /\ StartsWith(data.id, "tel_")
SeenBefore(data) ==
    \E i \in DOMAIN tel_sent : IsTelemetry(tel_sent[i]) /\ tel_sent[i].id = data.id

\* C32: a telemetry message with a topic the controller does not have is
\* logged the first time the topic is seen and never again, and is never
\* published; a message with a topic the controller has is published every
\* time.
C32_UnknownLoggedOnceKnownPublished ==
    [][\A data \in TelemetryMessages :
          (TelemetrySend(data) /\ IsTelemetry(data))
          => IF data.id \in TelemetryTopics
             THEN tel_written' = Append(tel_written, data) /\ tel_log' = tel_log
             ELSE /\ tel_written' = tel_written
                  /\ tel_log' = IF SeenBefore(data) THEN tel_log
                                ELSE Append(tel_log, UnknownTopic(data.id))]_vars

----------------------------------------------------------------------------
(* The ticket map shared by the read loop, the waiters and the reaper *)

\* C33: a step touches only tickets that are in commands_issued when it is
\* taken, and a fail-reason waiter whose window expires after its ticket was
\* removed does nothing and raises no error.
C33_RemovedTicketLeftAlone ==
    [][/\ \A s \in DOMAIN tickets :
            tickets'[s] # tickets[s] => s \in commands_issued
       /\ \A w \in background_tasks :
            (WaiterTimeout(w) /\ w.sequence_id \notin commands_issued)
            => UNCHANGED <<tickets, commands_issued, task_errors>>]_vars

\* C34: once stop_clients (here called by the fault of an end_start that saw
\* no state event) or start_clients has run, no fail-reason waiter is left
\* in background_tasks and no reaper of the previous session is still running.
C34_NoTaskSurvives ==
    [][/\ StartWaitTimeout
            => background_tasks' = {} /\ cleanup_task'.state # "sleeping"
       /\ OrchStart => background_tasks' = {}]_vars

\* C35: every ticket registered by write_command is eventually resolved and
\* removed, whatever the device does.  The reaper is the one task that
\* resolves a ticket without a message from the device, so from the first
\* connection on every ticket in commands_issued has the reaper running.
C35_RegisteredTicketHasReaper ==
    connects >= 1 => \A s \in commands_issued : ReaperRuns

----------------------------------------------------------------------------
(* The device's lifecycle, in the system of SpecCycle *)

\* the lifecycle of the comment at the simulator's state, and recovery from
\* FAULT: state, command, next state
LifecycleRows ==
    {<<"STANDBY", START, "DISABLED">>, <<"DISABLED", ENABLE, "ENABLED">>,
     <<"ENABLED", DISABLE, "DISABLED">>, <<"DISABLED", STANDBY, "STANDBY">>,
     <<"FAULT", STANDBY, "STANDBY">>}

\* C36: an accepted command changes simulator_state only along a row of the
\* lifecycle: where the current state has no row for the command, the state
\* stays as it is.
C36_OnlyAlongARow ==
    [][(Handled /\ Accepted(last_written'))
        => \/ <<simulator_state, last_data'.id, simulator_state'>> \in LifecycleRows
           \/ /\ \A st \in State :
                    <<simulator_state, last_data'.id, st>> \notin LifecycleRows
              /\ simulator_state' = simulator_state]_vars

----------------------------------------------------------------------------
(* Two failed commands awaiting their reasons, in the system of SpecCsc *)

\* the ticket's FAIL has been received and its reason is awaited
ReasonAwaited(s) ==
    Live(s) /\ \E w \in background_tasks : w.sequence_id = s /\ ~w.woken

\* C37: with the reasons of two tickets a and b awaited at the same time, the
\* failReason for a resolves and removes a only: b stays pending and live,
\* and b's wait for its own reason goes on, to end with b's own failReason
\* or at the expiry of b's own window.
C37_EachTicketItsOwnOutcome ==
    [][\A a, b \in commands_issued :
         \A data \in EnvMessages :
            (/\ a # b
             /\ ReasonAwaited(a)
             /\ ReasonAwaited(b)
             /\ data.id = FAIL_REASON
             /\ data.sequence_id = a
             /\ EnvDeliver(data))
            => /\ ~Live(a)'
               /\ FutureDone(tickets'[a].done)
               /\ tickets'[b] = tickets[b]
               /\ ReasonAwaited(b)']_vars

----------------------------------------------------------------------------
(* The device reporting FAULT, in the system of SpecOrch *)

\* C38: a state event reporting FAULT that is not the first event after a
\* fresh connection puts the controller in FAULT, whatever state the device
\* reported at connection time.
C38_LaterFaultEventFaults ==
    [][(EnvDeliver(StateEvent("FAULT")) /\ ~expect_at_start_state_event)
        => summary_state' = "FAULT"]_vars

----------------------------------------------------------------------------
(* Issuing a command, in the system of SpecTransit *)

\* the sequence ids of the messages that carry one
IdsIn(msgs) ==
    {msgs[i].sequence_id : i \in {j \in DOMAIN msgs : HasSequenceId(msgs[j])}}

\* every command on its way to the device and every response on its way back
\* belongs to a ticket that is live, unless it has been resolved meanwhile
TicketsFound ==
    \A s \in IdsIn(c2d) \cup IdsIn(dev_out) :
        /\ s \in DOMAIN tickets
        /\ Live(s) \/ FutureDone(tickets[s].done)

\* C39: write_command registers the ticket under its sequence id when it
\* writes the command and returns it unresolved, taking no response from the
\* connection; every command on its way to the device and every response on
\* its way back belongs to a ticket that is live, unless it has been
\* resolved (by a response or by the reaper) in the meantime.
C39_RegisteredBeforeWritten ==
    [][/\ TicketsFound'
       /\ Writes
            => /\ next_sequence_id \in commands_issued'
               /\ ~FutureDone(tickets'[next_sequence_id].done)
               /\ connected
                    => c2d' = Append(c2d, CommandData(tickets'[next_sequence_id].name,
                                                      next_sequence_id))
               /\ dev_out' = dev_out]_vars

\* a response is on its way to a ticket that is still pending and live
C39_Witness ==
    \E i \in DOMAIN dev_out :
        /\ HasSequenceId(dev_out[i])
        /\ Live(dev_out[i].sequence_id)
        /\ Pending(dev_out[i].sequence_id)

----------------------------------------------------------------------------
(* The controller losing its cmd/evt connection *)

\* the device closes the cmd/evt connection: the client is no longer
\* connected, read_json raises IncompleteReadError, cmd_evt_loop takes it for
\* a message with id "None" and calls fault
ConnectionLost ==
    /\ event_task = "running"
    /\ connected
    /\ IF StopClientsRaises
       THEN \* the CancelledError out of stop_clients ends cmd_evt_loop
            /\ \E w \in background_tasks : background_tasks' = background_tasks \ {w}
            /\ event_task' = "cancelled"
            /\ connected' = FALSE
            /\ UNCHANGED <<cleanup_task, telemetry_task, dev_loop, summary_state>>
       ELSE fault(TRUE)
    /\ UNCHANGED <<tickets, commands_issued, next_sequence_id, fail_reason_event,
                   at_state_event, fault_event, at_state, at_connect_state,
                   state_transition_ongoing, expect_at_start_state_event, orch,
                   task_errors, simulation_mode, simulator_state, last_sequence_id,
                   dev_out, dev_count, last_data, last_written, c2d, now,
                   env_count, connects, telvars>>

NextLost ==
    \/ OrchStart
    \/ StartWaitDone
    \/ StartWaitTimeout
    \/ OrchTransit
    \/ EnableLoop
    \/ EnableWaitDone
    \/ EnableWaitEvent
    \/ EnableSleep
    \/ EnableEnd
    \/ StepWaitDone
    \/ StepWaitEvent
    \/ StepEnd
    \/ \E command \in CallerCommands : CallerWrite(command)
    \/ \E data \in OrchMessages : EnvDeliver(data)
    \/ \E w \in background_tasks : WaiterTimeout(w)
    \/ \E w \in background_tasks : WaiterReturn(w)
    \/ CleanupSweep
    \/ ConnectionLost
    \/ TickTo(MaxOrchTime)

SpecLost == Init /\ [][NextLost]_vars

\* C40: a transition that finds the cmd/evt connection not connected when it
\* begins (begin_disable, begin_standby, a pass of begin_enable) puts the
\* controller in FAULT, writes no command and registers no ticket.
C40_NotConnectedFaults ==
    [][(/\ ~connected
        /\ \/ DoDisable
           \/ DoStandby
           \/ EnableLoop /\ summary_state = "DISABLED")
        => /\ summary_state' = "FAULT"
           /\ tickets' = tickets
           /\ commands_issued' = commands_issued
           /\ c2d' = c2d]_vars

====
